---- MODULE Spec2Model ----
(***************************************************************************)
(* Validation engine of the magnetic-structure validation pipeline:        *)
(* run_validation (pipeline/runner.py) and the gates it sequences          *)
(* (validation/cif_sanity.py, validation/geometry.py,                      *)
(* validation/chemistry.py, novelty/novelty_check.py, dedup/matcher.py,    *)
(* validation/magnetism.py).                                               *)
(*                                                                         *)
(* Conventions.  Lengths and densities are integers in tenths (0.7 A is 7, *)
(* 30.0 g/cm3 is 300); element amounts are integers in halves (1.5 atoms   *)
(* is 3) so that int(round(float(amt))) is a real conversion; a text made  *)
(* of digits is a sequence of one-character strings; a quotient of two     *)
(* numbers is kept as the pair [num, den].                                 *)
(***************************************************************************)
EXTENDS Integers, Sequences, FiniteSets, TLC

VARIABLES
    pc,          \* "running" | "done" | "aborted" (run_validation), "idle" elsewhere
    nItems,      \* len(items) as returned by discover_cifs
    idx,         \* number of items the for-loop has taken so far
    items,       \* the inputs of the items taken so far (file content, faults)
    reference,   \* TrainReferenceIndex.keys, or None when no reference is loaded
    stats,       \* RunStats
    buckets,     \* SimilarityChecker._buckets: key -> sequence of structures (item ids)
    results,     \* per item: its ValidationResult, or NoResult when it has none
    records,     \* rows handed to records_writer.add, in order
    gateLog,     \* per item: the gates the orchestrator evaluated, in order
    fitTrue,     \* pairs <<later, earlier>> the comparator judges equivalent
    compared,    \* pairs <<later, earlier>> on which matcher.fit was invoked
    counted,     \* which stats counter each item was counted in
    report,      \* the summary returned by run_validation, or None before it
    order,       \* the item ids in the order discover_cifs returned them
    runNo,       \* 1 for a run, 2 for a second run on the same inputs
    prevRun,     \* what the first run left behind, once a second run has begun
    writer,      \* the BufferedCSVWriter object of the run
    ledger,      \* the rows of the file all_structures.csv
    chIn,        \* input of a stand-alone check_charge_neutrality call
    chOut,       \* its result
    geoIn,       \* input of a stand-alone pass through the geometry gate
    geoOut       \* its outcome

vars == <<pc, nItems, idx, items, reference, stats, buckets, results, records,
          gateLog, fitTrue, compared, counted, report, order, runNo, prevRun,
          writer, ledger, chIn, chOut, geoIn, geoOut>>

pipeVars == <<pc, nItems, idx, items, reference, stats, buckets, results,
              records, gateLog, fitTrue, compared, counted, report, order,
              runNo, prevRun, writer, ledger>>

chargeVars == <<chIn, chOut>>

geoVars == <<geoIn, geoOut>>

----------------------------------------------------------------------------
(* Bounds of the model *)

MaxItems == 3

MaxAmt == 6

MaxRerunItems == 2

MaxLedgerItems == 4

MaxFlushEvery == 2

MaxAdds == 4

MaxOpens == 2

----------------------------------------------------------------------------
(* Values *)

\* Python's None for an optional value; Some(v) is a value that is present
None == <<>>

Some(v) == <<v>>

\* None where the value, when present, is a reason code
NoReason == "none"

VALIDATED == "validated"

REJECTED == "rejected"

CIF_PARSE_ERROR == "cif_parse_error"

CIF_SANITY_ERROR == "cif_sanity_error"

TOO_MANY_ATOMS == "too_many_atoms"

PHYS_IMPOSSIBLE_DISTANCE == "physically_impossible_distance"

UNREALISTIC_DENSITY == "unrealistic_density"

CHARGE_IMBALANCE == "charge_imbalance"

DUPLICATE == "duplicate"

ElementCap == 10

\* flush_every=500 of the writer run_validation creates
RunFlushEvery == 500

----------------------------------------------------------------------------
(* Small helpers *)

Range(s) == {s[i] : i \in DOMAIN s}

RECURSIVE SeqSum(_)
SeqSum(s) == IF s = <<>> THEN 0 ELSE Head(s) + SeqSum(Tail(s))

MinOf(S) == CHOOSE x \in S : \A y \in S : x <= y

MaxOf(S) == CHOOSE x \in S : \A y \in S : x >= y

Last(s) == s[Len(s)]

----------------------------------------------------------------------------
(* validation/chemistry.py : check_charge_neutrality *)

\* int(round(float(amt))) on an amount given in halves: Python rounds a tie
\* to the even neighbour.
RoundAmt(amt2) ==
    LET q == amt2 \div 2
        r == amt2 % 2
    IN IF r = 0 THEN q
       ELSE IF q % 2 = 0 THEN q ELSE q + 1

\* counts[str(el)] = int(round(float(amt))), in the dict's insertion order
Counts(comp) == [i \in DOMAIN comp |-> [el |-> comp[i].el, n |-> RoundAmt(comp[i].amt2)]]

\* cfg.oxidation_states or {}
OxOrEmpty(oxcfg) == IF oxcfg = None THEN <<>> ELSE oxcfg[1]

\* the list of missing elements cut after its first element
RECURSIVE MissingFirst(_, _)
MissingFirst(counts, ox) ==
    IF counts = <<>> THEN <<>>
    ELSE IF Head(counts).el \in DOMAIN ox
         THEN MissingFirst(Tail(counts), ox)
         ELSE <<Head(counts).el>>

\* missing = [el for el in counts if el not in ox]
RECURSIVE Missing(_, _)
Missing(counts, ox) ==
    IF counts = <<>> THEN <<>>
    ELSE IF Head(counts).el \in DOMAIN ox
         THEN Missing(Tail(counts), ox)
         ELSE <<Head(counts).el>> \o Missing(Tail(counts), ox)

\* one step of the stable sort by key -count: x goes behind every element
\* already placed whose count is not smaller
RECURSIVE InsertDesc(_, _)
InsertDesc(sorted, x) ==
    IF sorted = <<>> THEN <<x>>
    ELSE IF Head(sorted).n >= x.n
         THEN <<Head(sorted)>> \o InsertDesc(Tail(sorted), x)
         ELSE <<x>> \o sorted

\* sorted(counts.items(), key=lambda kv: -kv[1])
RECURSIVE SortDesc(_)
SortDesc(counts) ==
    IF counts = <<>> THEN <<>>
    ELSE InsertDesc(SortDesc(SubSeq(counts, 1, Len(counts) - 1)), counts[Len(counts)])

\* min_tail[i] = min_tail[i + 1] + min(s) * n, for i in 1 .. len+1
RECURSIVE min_tail(_, _, _)
min_tail(nums, states, i) ==
    IF i > Len(nums) THEN 0
    ELSE min_tail(nums, states, i + 1) + MinOf(Range(states[i])) * nums[i]

\* max_tail[i] = max_tail[i + 1] + max(s) * n
RECURSIVE max_tail(_, _, _)
max_tail(nums, states, i) ==
    IF i > Len(nums) THEN 0
    ELSE max_tail(nums, states, i + 1) + MaxOf(Range(states[i])) * nums[i]

\* the assignment written as chosen.setdefault(el, int(st)): a state tried
\* earlier for el is kept
ChosenPutStale(chosen, el, st) ==
    IF el \in DOMAIN chosen THEN chosen
    ELSE [x \in (DOMAIN chosen) \cup {el} |-> IF x = el THEN st ELSE chosen[x]]

\* chosen[el] = int(st)
ChosenPut(chosen, el, st) ==
    [x \in (DOMAIN chosen) \cup {el} |-> IF x = el THEN st ELSE chosen[x]]

\* chosen.pop(el, None)
ChosenPop(chosen, el) == [x \in (DOMAIN chosen) \ {el} |-> chosen[x]]

\* the pruning test with the lower bound compared inclusively
PruneOff(lo, hi) == 0 <= lo \/ 0 > hi

\* if 0 < lo or 0 > hi: return False
Prune(lo, hi) == 0 < lo \/ 0 > hi

\* dfs(i, acc) with the dictionary chosen threaded through; tryStates is the
\* for-loop over states[i] from position k on
RECURSIVE dfs(_, _, _, _)
RECURSIVE tryStates(_, _, _, _, _)
dfs(c, i, acc, chosen) ==
    IF i = Len(c.elems) + 1
    THEN [found |-> (acc = 0), chosen |-> chosen]
    ELSE LET lo == acc + c.min_tail[i]
             hi == acc + c.max_tail[i]
         IN IF Prune(lo, hi)
            THEN [found |-> FALSE, chosen |-> chosen]
            ELSE tryStates(c, i, acc, chosen, 1)

tryStates(c, i, acc, chosen, k) ==
    IF k > Len(c.states[i])
    THEN [found |-> FALSE, chosen |-> ChosenPop(chosen, c.elems[i])]
    ELSE LET st == c.states[i][k]
             r  == dfs(c, i + 1, acc + st * c.nums[i],
                       ChosenPut(chosen, c.elems[i], st))
         IN IF r.found THEN r ELSE tryStates(c, i, acc, r.chosen, k + 1)

\* the details mapping of a charge result: its error or charge_check entry,
\* the missing_elements list and the n_elements number
Details(what, els, n) == [what |-> what, missing_elements |-> els, n_elements |-> n]

\* a result; searched records whether the call got as far as dfs(0, 0)
ChargeCheckResult(ok, reason, details, solution) ==
    [raised |-> FALSE, ok |-> ok, reason |-> reason, details |-> details,
     solution |-> solution, searched |-> FALSE]

\* an exception leaving check_charge_neutrality
ChargeRaised(what) ==
    [raised |-> TRUE, ok |-> FALSE, reason |-> NoReason, details |-> Details(what, <<>>, 0),
     solution |-> None, searched |-> FALSE]

\* the result of a call that ran dfs(0, 0)
AfterSearch(r) == [r EXCEPT !.searched = TRUE]

\* the cap test with the bound compared inclusively
OverCapInclusive(n) == n >= ElementCap

\* if len(elems) > 10
OverCap(n) == n > ElementCap

\* check_charge_neutrality(struct, cfg): comp is struct.composition as the
\* sequence of [el, amt2] entries, oxcfg is cfg.oxidation_states
check_charge_neutrality(comp, oxcfg) ==
    LET counts == Counts(comp)
        ox     == OxOrEmpty(oxcfg)
    IN IF counts = <<>>
       THEN ChargeCheckResult(FALSE, CHARGE_IMBALANCE, Details("empty_composition", <<>>, 0), None)
       ELSE IF Missing(counts, ox) # <<>>
       THEN ChargeCheckResult(FALSE, CHARGE_IMBALANCE,
                              Details("missing_elements", Missing(counts, ox), 0), None)
       ELSE LET srt    == SortDesc(counts)
                elems  == [i \in DOMAIN srt |-> srt[i].el]
                nums   == [i \in DOMAIN srt |-> srt[i].n]
                states == [i \in DOMAIN srt |-> ox[srt[i].el]]
            IN IF OverCap(Len(elems))
               THEN ChargeCheckResult(FALSE, CHARGE_IMBALANCE,
                                      Details("too_many_elements", <<>>, Len(elems)), None)
               ELSE IF \E i \in DOMAIN states : states[i] = <<>>
               THEN ChargeRaised("ValueError")  \* min() of an empty list
               ELSE LET c == [elems |-> elems, nums |-> nums, states |-> states,
                              min_tail |-> [i \in 1..(Len(elems) + 1) |->
                                               min_tail(nums, states, i)],
                              max_tail |-> [i \in 1..(Len(elems) + 1) |->
                                               max_tail(nums, states, i)]]
                        r == dfs(c, 1, 0, <<>>)
                    IN IF r.found
                       THEN AfterSearch(ChargeCheckResult(TRUE, NoReason,
                                Details("charge_check_ok", <<>>, 0), Some(r.chosen)))
                       ELSE AfterSearch(ChargeCheckResult(FALSE, CHARGE_IMBALANCE,
                                Details("charge_check_no_solution", <<>>, 0), None))

----------------------------------------------------------------------------
(* Configuration: the PipelineConfig handed to run_validation *)

\* cfg.oxidation_states of the run: H has an entry with no states, Ar has
\* no entry
TableRun == [Fe |-> <<2, 3>>, O |-> <<-2>>, Na |-> <<1>>, H |-> <<>>]

cfg ==
    [max_n_atoms |-> 8,
     d_min_reject |-> 7, d_max_suspicious |-> 12,
     vpa_min |-> 8, vpa_max |-> 40,
     density_min |-> 5, density_max |-> 300,
     oxidation_states |-> Some(TableRun),
     magnetic_elements |-> {"Fe", "Co", "Ni", "Mn", "Cr", "V"},
     reject_suspicious |-> FALSE]

----------------------------------------------------------------------------
(* validation/cif_sanity.py *)

\* sanity_ok(struct)
sanity_ok(s) ==
    IF s.n_atoms <= 0 THEN FALSE
    ELSE IF ~(s.volume # 0 /\ s.volume > 0) THEN FALSE
    ELSE TRUE

----------------------------------------------------------------------------
(* analysis/spacegroup.py, analysis/descriptors.py *)

\* get_spacegroup_number(struct, symprec): the analyzer's number, or None
\* when the analyzer fails (the exception is swallowed inside)
get_spacegroup_number(s) == s.sg

\* a quotient num/den
Quot(num, den) == [num |-> num, den |-> den]

\* compute_basic_descriptors(struct, spacegroup)
compute_basic_descriptors(s, spacegroup) ==
    [n_atoms |-> s.n_atoms,
     density |-> s.dens,
     volume_per_atom |-> IF s.n_atoms # 0 THEN Quot(s.volume, s.n_atoms)
                                          ELSE Quot(0, 1),
     reduced_formula |-> s.formula,
     spacegroup |-> spacegroup]

----------------------------------------------------------------------------
(* validation/geometry.py *)

GeometryOutcome(status, is_suspicious, reason, details) ==
    [status |-> status, is_suspicious |-> is_suspicious, reason |-> reason,
     details |-> details]

\* the details mapping of a geometry outcome; min_distance is None when the
\* mapping has no such key
GeoDetails(n_atoms, min_distance, suspicious_reason) ==
    [n_atoms |-> n_atoms, min_distance |-> min_distance,
     suspicious_reason |-> suspicious_reason]

\* q <= k in the place of q < k
QuotLessOrEqual(q, k) == q.num <= k * q.den

\* q < k  and  q > k  for a quotient with a positive denominator
QuotLess(q, k) == q.num < k * q.den

QuotGreater(q, k) == q.num > k * q.den

\* geometry_validate with the density check placed before the distance check
geometry_validate_density_first(s, c) ==
    LET n_atoms == s.n_atoms
        dens    == s.dens
        vpa     == IF n_atoms # 0 THEN Quot(s.volume, n_atoms) ELSE Quot(0, 1)
        dmin    == s.dmin
    IN IF n_atoms > c.max_n_atoms
       THEN GeometryOutcome(REJECTED, FALSE, TOO_MANY_ATOMS,
                            GeoDetails(n_atoms, None, ""))
       ELSE IF dens < c.density_min \/ dens > c.density_max
       THEN GeometryOutcome(REJECTED, FALSE, UNREALISTIC_DENSITY,
                            GeoDetails(n_atoms, Some(dmin), ""))
       ELSE IF dmin < c.d_min_reject
       THEN GeometryOutcome(REJECTED, FALSE, PHYS_IMPOSSIBLE_DISTANCE,
                            GeoDetails(n_atoms, Some(dmin), ""))
       ELSE LET suspicious == \/ dmin < c.d_max_suspicious
                              \/ QuotLess(vpa, c.vpa_min)
                              \/ QuotGreater(vpa, c.vpa_max)
            IN GeometryOutcome(VALIDATED, suspicious, NoReason,
                   GeoDetails(n_atoms, Some(dmin),
                       IF suspicious /\ dmin < c.d_max_suspicious
                       THEN "low_interatomic_distance"
                       ELSE IF suspicious THEN "non_standard_vpa" ELSE ""))

\* geometry_validate(struct, cfg)
geometry_validate(s, c) ==
    LET n_atoms == s.n_atoms
        dens    == s.dens
        vpa     == IF n_atoms # 0 THEN Quot(s.volume, n_atoms) ELSE Quot(0, 1)
        dmin    == s.dmin
    IN IF n_atoms > c.max_n_atoms
       THEN GeometryOutcome(REJECTED, FALSE, TOO_MANY_ATOMS,
                            GeoDetails(n_atoms, None, ""))
       ELSE IF dmin < c.d_min_reject
       THEN GeometryOutcome(REJECTED, FALSE, PHYS_IMPOSSIBLE_DISTANCE,
                            GeoDetails(n_atoms, Some(dmin), ""))
       ELSE IF dens < c.density_min \/ dens > c.density_max
       THEN GeometryOutcome(REJECTED, FALSE, UNREALISTIC_DENSITY,
                            GeoDetails(n_atoms, Some(dmin), ""))
       ELSE LET suspicious == \/ dmin < c.d_max_suspicious
                              \/ QuotLess(vpa, c.vpa_min)
                              \/ QuotGreater(vpa, c.vpa_max)
            IN GeometryOutcome(VALIDATED, suspicious, NoReason,
                   GeoDetails(n_atoms, Some(dmin),
                       IF suspicious /\ dmin < c.d_max_suspicious
                       THEN "low_interatomic_distance"
                       ELSE IF suspicious THEN "non_standard_vpa" ELSE ""))

----------------------------------------------------------------------------
(* novelty/novelty_check.py *)

Digit(d) == <<"0", "1", "2", "3", "4", "5", "6", "7", "8", "9">>[d + 1]

\* str(n) for an integer n: its decimal digits, with a sign when negative
RECURSIVE IntToText(_)
IntToText(n) ==
    IF n < 0 THEN <<"-">> \o IntToText(0 - n)
    ELSE IF n < 10 THEN <<Digit(n)>>
    ELSE IntToText(n \div 10) \o <<Digit(n % 10)>>

\* str(None), the text a conversion without the None test would produce
NoneText == <<"N", "o", "n", "e">>

\* is_novel with sg_str = str(spacegroup) also for an absent spacegroup
is_novel_str(s, ref, reduced_formula, spacegroup) ==
    IF ref = None THEN None
    ELSE LET formula == IF reduced_formula # "" THEN reduced_formula ELSE s.formula
             sg_str  == IF spacegroup = None THEN NoneText
                        ELSE IntToText(spacegroup[1])
         IN Some(<<formula, sg_str>> \notin ref[1])

\* is_novel(struct, reference, reduced_formula=..., spacegroup=...)
is_novel(s, ref, reduced_formula, spacegroup) ==
    IF ref = None THEN None
    ELSE LET formula == IF reduced_formula # "" THEN reduced_formula ELSE s.formula
             sg_str  == IF spacegroup = None THEN <<>>
                        ELSE IntToText(spacegroup[1])
         IN Some(<<formula, sg_str>> \notin ref[1])

\* load_train_reference(path): no path, no index; otherwise the set of
\* (reduced formula text, spacegroup text) keys of the corpus rows
load_train_reference(train_reference) ==
    IF train_reference = None THEN None
    ELSE Some({<<train_reference[1][k].reduced_formula,
                 train_reference[1][k].spacegroup>> :
                  k \in DOMAIN train_reference[1]})

----------------------------------------------------------------------------
(* dedup/matcher.py : SimilarityChecker *)

\* the for-loop of is_duplicate over self._buckets[key] from position k on;
\* fit is the set of stored structures the comparator judges equivalent to
\* struct, raises says that matcher.fit raises when called for struct
RECURSIVE FitLoop(_, _, _, _, _, _)
FitLoop(struct, bucket, k, fit, raises, seen) ==
    IF k > Len(bucket) THEN [dup |-> FALSE, raised |-> FALSE, compared |-> seen]
    ELSE LET existing == bucket[k]
             seen2    == seen \cup {<<struct, existing>>}
         IN IF raises THEN [dup |-> FALSE, raised |-> TRUE, compared |-> seen2]
            ELSE IF existing \in fit
            THEN [dup |-> TRUE, raised |-> FALSE, compared |-> seen2]
            ELSE FitLoop(struct, bucket, k + 1, fit, raises, seen2)

\* a bucket key that leaves the formula out
BucketKeySgOnly(formula, sg) == <<"", sg>>

\* key = (formula, sg)
BucketKey(formula, sg) == <<formula, sg>>

\* is_duplicate comparing with the last stored structure of the bucket only
is_duplicate_last(bk, struct, formula, sg, fit, raises) ==
    LET key == BucketKey(formula, sg)
    IN IF key \notin DOMAIN bk
       THEN [dup |-> FALSE, raised |-> FALSE, compared |-> {}]
       ELSE FitLoop(struct, bk[key], Len(bk[key]), fit, raises, {})

\* is_duplicate(struct, formula, sg)
is_duplicate(bk, struct, formula, sg, fit, raises) ==
    LET key == BucketKey(formula, sg)
    IN IF key \notin DOMAIN bk
       THEN [dup |-> FALSE, raised |-> FALSE, compared |-> {}]
       ELSE FitLoop(struct, bk[key], 1, fit, raises, {})

\* add_to_accepted written with insert(0, struct)
add_to_accepted_front(bk, struct, formula, sg) ==
    LET key == BucketKey(formula, sg)
        bk1 == IF key \notin DOMAIN bk
               THEN [x \in (DOMAIN bk) \cup {key} |->
                        IF x = key THEN <<>> ELSE bk[x]]
               ELSE bk
    IN [bk1 EXCEPT ![key] = <<struct>> \o @]

\* add_to_accepted(struct, formula, sg)
add_to_accepted(bk, struct, formula, sg) ==
    LET key == BucketKey(formula, sg)
        bk1 == IF key \notin DOMAIN bk
               THEN [x \in (DOMAIN bk) \cup {key} |->
                        IF x = key THEN <<>> ELSE bk[x]]
               ELSE bk
    IN [bk1 EXCEPT ![key] = Append(@, struct)]

----------------------------------------------------------------------------
(* validation/magnetism.py *)

\* has_magnetic_elements(struct, cfg) for a structure whose sites are ordered
has_magnetic_elements(s, c) ==
    ({s.comp[i].el : i \in DOMAIN s.comp} \cap c.magnetic_elements) # {}

----------------------------------------------------------------------------
(* utils/types.py *)

Rejection(reason, details) == [reason |-> reason, details |-> details]

\* a result that keeps its descriptors only when it carries no rejection
ValidationResultBare(status, descriptors, rejection, is_magnetic, novel) ==
    [status |-> status,
     descriptors |-> IF rejection = None THEN descriptors ELSE None,
     rejection |-> rejection,
     is_magnetic |-> is_magnetic, is_novel |-> novel,
     is_duplicate |-> FALSE, is_suspicious |-> FALSE]

\* a result that sets is_suspicious whenever it carries a rejection
ValidationResultSuspiciousAny(status, descriptors, rejection, is_magnetic, novel) ==
    [status |-> status, descriptors |-> descriptors, rejection |-> rejection,
     is_magnetic |-> is_magnetic, is_novel |-> novel,
     is_duplicate |-> FALSE, is_suspicious |-> (rejection # None)]

\* a result that sets is_duplicate whenever it carries a rejection
ValidationResultDupAny(status, descriptors, rejection, is_magnetic, novel) ==
    [status |-> status, descriptors |-> descriptors, rejection |-> rejection,
     is_magnetic |-> is_magnetic, is_novel |-> novel,
     is_duplicate |-> (rejection # None), is_suspicious |-> FALSE]

\* ValidationResult(status=..., descriptors=..., rejection=..., is_magnetic=...,
\* is_novel=...); is_duplicate and is_suspicious keep their defaults
ValidationResult(status, descriptors, rejection, is_magnetic, novel) ==
    [status |-> status, descriptors |-> descriptors, rejection |-> rejection,
     is_magnetic |-> is_magnetic, is_novel |-> novel,
     is_duplicate |-> FALSE, is_suspicious |-> FALSE]

\* the place of an item that has no ValidationResult
NoResult == ValidationResult("none", None, None, FALSE, None)

----------------------------------------------------------------------------
(* report/records.py : BufferedCSVWriter *)

\* a row of the file: the header line or one record
HeaderRow == [header |-> TRUE, rec |-> <<>>]

DataRow(rec) == [header |-> FALSE, rec |-> <<rec>>]

\* BufferedCSVWriter(path=..., fieldnames=..., flush_every=...): is_open says
\* that _file and _writer are set
BufferedCSVWriter(flush_every) ==
    [flush_every |-> flush_every, buffer |-> <<>>, is_open |-> FALSE,
     wrote_header |-> FALSE]

\* a writer w together with the rows f of the file at its path
WriterIO(w, f) == [w |-> w, f |-> f]

\* open(): the file is opened in mode "a" and writeheader() is called
writer_open(io) ==
    WriterIO([io.w EXCEPT !.is_open = TRUE, !.wrote_header = TRUE],
             Append(io.f, HeaderRow))

\* flush()
writer_flush(io) ==
    IF io.w.buffer = <<>> THEN io
    ELSE LET io1 == IF ~io.w.is_open THEN writer_open(io) ELSE io
         IN WriterIO([io1.w EXCEPT !.buffer = <<>>],
                     io1.f \o [k \in DOMAIN io1.w.buffer |-> DataRow(io1.w.buffer[k])])

\* the buffer test written with > for >=
BufferFullLate(n, flush_every) == n > flush_every

\* len(self._buffer) >= self.flush_every
BufferFull(n, flush_every) == n >= flush_every

\* add(record)
writer_add(io, rec) ==
    LET io1 == IF ~io.w.is_open THEN writer_open(io) ELSE io
        io2 == WriterIO([io1.w EXCEPT !.buffer = Append(@, rec)], io1.f)
    IN IF BufferFull(Len(io2.w.buffer), io2.w.flush_every)
       THEN writer_flush(io2) ELSE io2

\* close(): flush, then the file is closed and _file, _writer are reset
writer_close(io) ==
    LET io1 == writer_flush(io)
    IN WriterIO([io1.w EXCEPT !.is_open = FALSE], io1.f)

----------------------------------------------------------------------------
(* pipeline/runner.py *)

\* RunStats(total=len(items))
RunStats(total) ==
    [total |-> total, validated |-> 0, rejected |-> 0, magnetic_count |-> 0,
     novel_count |-> 0, densities |-> <<>>, vpas |-> <<>>,
     rejection_reasons |-> <<>>]

\* add_rejection_reason written as rejection_reasons[key] = 1
add_rejection_reason_set(st, reason) ==
    LET rr == st.rejection_reasons
    IN [st EXCEPT !.rejection_reasons =
           [x \in (DOMAIN rr) \cup {reason} |->
               IF x = reason THEN 1 ELSE rr[x]]]

\* RunStats.add_rejection_reason(reason)
add_rejection_reason(st, reason) ==
    LET rr == st.rejection_reasons
    IN [st EXCEPT !.rejection_reasons =
           [x \in (DOMAIN rr) \cup {reason} |->
               IF x = reason
               THEN (IF reason \in DOMAIN rr THEN rr[reason] ELSE 0) + 1
               ELSE rr[x]]]

\* a rejecting branch that records the reason and forgets stats.rejected += 1
CountRejectedLost(st, reason) == add_rejection_reason(st, reason)

\* stats.rejected += 1; stats.add_rejection_reason(reason)
CountRejected(st, reason) ==
    add_rejection_reason([st EXCEPT !.rejected = @ + 1], reason)

\* the counters fed on acceptance with the novelty test written as
\* novel is not False
CountValidatedNotFalse(st, desc, magnetic, novel) ==
    [st EXCEPT !.validated = @ + 1,
               !.magnetic_count = IF magnetic THEN @ + 1 ELSE @,
               !.novel_count = IF novel # Some(FALSE) THEN @ + 1 ELSE @,
               !.densities = Append(@, desc.density),
               !.vpas = Append(@, desc.volume_per_atom)]

\* stats.validated += 1 and the counters and lists fed on acceptance
CountValidated(st, desc, magnetic, novel) ==
    [st EXCEPT !.validated = @ + 1,
               !.magnetic_count = IF magnetic THEN @ + 1 ELSE @,
               !.novel_count = IF novel = Some(TRUE) THEN @ + 1 ELSE @,
               !.densities = Append(@, desc.density),
               !.vpas = Append(@, desc.volume_per_atom)]

\* _make_record(item=..., result=..., geo_details=..., charge_solution=...)
make_record(item, result, geo_details, charge_solution) ==
    [structure_id |-> item,
     status |-> result.status,
     rejection_reason |-> IF result.rejection # None
                          THEN result.rejection[1].reason ELSE "",
     is_suspicious |-> result.is_suspicious,
     is_duplicate |-> result.is_duplicate,
     is_novel |-> result.is_novel,
     is_magnetic |-> result.is_magnetic,
     descriptors |-> result.descriptors,
     min_distance |-> IF geo_details # None /\ geo_details[1].min_distance # None
                      THEN geo_details[1].min_distance ELSE None,
     charge_solution |-> charge_solution]

\* the order of the gates in the loop body
GateOrder ==
    <<"parse", "sanity", "spacegroup", "descriptors", "geometry", "charge",
      "novelty", "duplicate", "add_to_accepted", "magnetic", "accept">>

\* the state one pass of the loop body leaves behind
Pass(log, result, row, st, bk, cmp, cnt, raised) ==
    [log |-> log, result |-> result, row |-> row, stats |-> st, buckets |-> bk,
     compared |-> cmp, counted |-> cnt, raised |-> raised]

\* a rejecting branch: build the result, emit its record, count it, continue
RejectPass(log, item, result, geo_details, charge_solution, st, bk, cmp) ==
    Pass(log, result, Some(make_record(item, result, geo_details, charge_solution)),
         CountRejected(st, result.rejection[1].reason), bk, cmp, {"rejected"}, FALSE)

\* an exception that leaves the loop body: nothing is emitted or counted
RaisePass(log, st, bk, cmp) == Pass(log, NoResult, None, st, bk, cmp, {}, TRUE)

\* a geometry test that never short-circuits
GeoRejectedNever(geo) == FALSE

\* a geometry test that also stops a suspicious structure
GeoRejectedOrSuspicious(geo) == geo.status = REJECTED \/ geo.is_suspicious

\* if geo.status == ValidationStatus.REJECTED
GeoRejected(geo) == geo.status = REJECTED

\* a charge test that never short-circuits
ChargeRejectedNever(charge) == FALSE

\* if not charge.ok
ChargeRejected(charge) == ~charge.ok

\* the writer left open when the loop is left
OnExitNoClose(io) == io

\* finally: records_writer.close()
OnExit(io) == writer_close(io)

\* desc.spacegroup or -1
SgOrSentinel(spacegroup) ==
    IF spacegroup = None \/ spacegroup = Some(0) THEN -1 ELSE spacegroup[1]

\* the body of  for item in items  for the item with id item and input inp
LoopBody(item, inp, st, bk, ref) ==
    LET s == inp.s
    IN IF ~s.parse_ok
       THEN RejectPass(<<"parse">>, item,
                ValidationResult(REJECTED, None,
                    Some(Rejection(CIF_PARSE_ERROR, "error")), FALSE, None),
                None, None, st, bk, {})
       ELSE IF ~sanity_ok(s)
       THEN RejectPass(<<"parse", "sanity">>, item,
                ValidationResult(REJECTED, None,
                    Some(Rejection(CIF_SANITY_ERROR, "sanity_failed")), FALSE, None),
                None, None, st, bk, {})
       ELSE
       LET sg == get_spacegroup_number(s)
           desc == compute_basic_descriptors(s, sg)
       IN IF inp.fault = "geometry"
       THEN RaisePass(<<"parse", "sanity", "spacegroup", "descriptors",
                        "geometry">>, st, bk, {})
       ELSE
       LET geo == geometry_validate(s, cfg)
       IN IF GeoRejected(geo)
       THEN RejectPass(<<"parse", "sanity", "spacegroup", "descriptors",
                         "geometry">>, item,
                ValidationResult(REJECTED, Some(desc),
                    Some(Rejection(geo.reason, geo.details)), FALSE, None),
                Some(geo.details), None, st, bk, {})
       ELSE
       LET charge == check_charge_neutrality(s.comp, cfg.oxidation_states)
           logC   == <<"parse", "sanity", "spacegroup", "descriptors",
                       "geometry", "charge">>
       IN IF charge.raised
       THEN RaisePass(logC, st, bk, {})
       ELSE IF ChargeRejected(charge)
       THEN RejectPass(logC, item,
                ValidationResult(REJECTED, Some(desc),
                    Some(Rejection(charge.reason, charge.details)), FALSE, None),
                Some(geo.details), None, st, bk, {})
       ELSE
       LET novel   == is_novel(s, ref, desc.reduced_formula, desc.spacegroup)
           formula == desc.reduced_formula
           sg_key  == SgOrSentinel(desc.spacegroup)
           dup     == is_duplicate(bk, item, formula, sg_key, inp.fit,
                                   inp.fault = "compare")
           logD    == logC \o <<"novelty", "duplicate">>
       IN IF dup.raised
       THEN RaisePass(logD, st, bk, dup.compared)
       ELSE IF dup.dup
       THEN RejectPass(logD, item,
                ValidationResult(REJECTED, Some(desc),
                    Some(Rejection(DUPLICATE, "")), FALSE, None),
                Some(geo.details), charge.solution, st, bk, dup.compared)
       ELSE
       LET bk2  == add_to_accepted(bk, item, formula, sg_key)
           logM == logD \o <<"add_to_accepted", "magnetic">>
       IN IF ~s.ordered
       THEN RaisePass(logM, st, bk2, dup.compared)  \* site.specie raises
       ELSE
       LET magnetic == has_magnetic_elements(s, cfg)
           result   == ValidationResult(VALIDATED, Some(desc), None, magnetic, novel)
       IN Pass(logM \o <<"accept">>, result,
               Some(make_record(item, result, Some(geo.details), charge.solution)),
               CountValidated(st, desc, magnetic, novel), bk2, dup.compared,
               {"validated"}, FALSE)

\* a / b without the test of b
RatioUnguarded(a, b) == Quot(a, b)

\* a if b else 0, as a quotient
Ratio(a, b) == IF b # 0 THEN Quot(a, b) ELSE Quot(0, 1)

RECURSIVE QuotSum(_)
QuotSum(qs) ==
    IF qs = <<>> THEN Quot(0, 1)
    ELSE LET r == QuotSum(Tail(qs))
         IN Quot(Head(qs).num * r.den + r.num * Head(qs).den, Head(qs).den * r.den)

\* _avg(values) for a list of numbers
avg(values) == IF values = <<>> THEN Quot(0, 1) ELSE Quot(SeqSum(values), Len(values))

\* _avg(values) for a list of quotients
avgQuot(values) ==
    IF values = <<>> THEN Quot(0, 1)
    ELSE Quot(QuotSum(values).num, QuotSum(values).den * Len(values))

\* the report dictionary
Report(st) ==
    [n_total |-> st.total,
     n_validated |-> st.validated,
     n_rejected |-> st.rejected,
     validity_ratio |-> Ratio(st.validated, st.total),
     magnetic_ratio |-> Ratio(st.magnetic_count, st.validated),
     novelty_ratio |-> Ratio(st.novel_count, st.validated),
     duplicate_ratio |-> Ratio(IF DUPLICATE \in DOMAIN st.rejection_reasons
                               THEN st.rejection_reasons[DUPLICATE] ELSE 0,
                               st.total),
     avg_density |-> avg(st.densities),
     avg_volume_per_atom |-> avgQuot(st.vpas),
     rejection_reasons |-> st.rejection_reasons]

----------------------------------------------------------------------------
(* Inputs of a run *)

Fe2O3 == <<[el |-> "Fe", amt2 |-> 4], [el |-> "O", amt2 |-> 6]>>

\* a parsed structure file
Structure(parse_ok, comp, n_atoms, formula, sg, volume, dens, dmin, ordered) ==
    [parse_ok |-> parse_ok, comp |-> comp, n_atoms |-> n_atoms,
     formula |-> formula, sg |-> sg, volume |-> volume, dens |-> dens,
     dmin |-> dmin, ordered |-> ordered]

Structures ==
    { Structure(FALSE, <<>>, 0, "", None, 0, 0, 0, TRUE),
      Structure(TRUE, Fe2O3, 5, "Fe2O3", Some(167), 0, 52, 19, TRUE),
      Structure(TRUE, <<[el |-> "Fe", amt2 |-> 8], [el |-> "O", amt2 |-> 12]>>,
                10, "Fe2O3", Some(167), 100, 400, 19, TRUE),
      Structure(TRUE, Fe2O3, 5, "Fe2O3", Some(167), 50, 52, 5, TRUE),
      Structure(TRUE, Fe2O3, 5, "Fe2O3", Some(167), 50, 301, 19, TRUE),
      Structure(TRUE, Fe2O3, 5, "Fe2O3", Some(167), 50, 52, 19, TRUE),
      Structure(TRUE, Fe2O3, 5, "Fe2O3", None, 50, 52, 10, TRUE),
      Structure(TRUE, <<[el |-> "O", amt2 |-> 2], [el |-> "Na", amt2 |-> 4]>>,
                3, "Na2O", Some(167), 150, 23, 24, TRUE),
      Structure(TRUE, <<[el |-> "Na", amt2 |-> 2], [el |-> "O", amt2 |-> 2]>>,
                2, "NaO", Some(225), 40, 23, 24, TRUE),
      Structure(TRUE, <<[el |-> "Ar", amt2 |-> 2], [el |-> "O", amt2 |-> 2]>>,
                2, "ArO", Some(1), 40, 23, 24, TRUE),
      Structure(TRUE, <<[el |-> "H", amt2 |-> 4], [el |-> "O", amt2 |-> 2]>>,
                3, "H2O", Some(1), 40, 10, 10, TRUE),
      Structure(TRUE, <<[el |-> "Fe", amt2 |-> 3], [el |-> "O", amt2 |-> 6]>>,
                5, "FeO2", Some(12), 50, 52, 19, FALSE) }

\* which external call raises while the item is processed
Faults == {"none", "geometry", "compare"}

\* a reference corpus: rows of reduced formula text and spacegroup text
RefRow(reduced_formula, spacegroup) ==
    [reduced_formula |-> reduced_formula, spacegroup |-> spacegroup]

TrainReferences ==
    { None,
      Some(<<RefRow("Fe2O3", <<"1", "6", "7">>)>>),
      Some(<<RefRow("Fe2O3", <<>>), RefRow("Na2O", <<"1", "6", "7">>),
             RefRow("Na2O", <<"1", "6", "7">>)>>) }

----------------------------------------------------------------------------
(* io/discover.py *)

\* the orders in which the directory walk can list n files; a file is named
\* by its rank among the paths, 1 .. n
Listings(n) == {l \in [1..n -> 1..n] : \A i, j \in 1..n : i # j => l[i] # l[j]}

RECURSIVE InsertAsc(_, _)
InsertAsc(sorted, x) ==
    IF sorted = <<>> THEN <<x>>
    ELSE IF Head(sorted) <= x
         THEN <<Head(sorted)>> \o InsertAsc(Tail(sorted), x)
         ELSE <<x>> \o sorted

\* discover_cifs without the sort: the files in the order of the walk
discover_cifs_unsorted(listing) == listing

\* discover_cifs(input_dir): files = sorted(input_dir.rglob("*.cif"))
RECURSIVE discover_cifs(_)
discover_cifs(listing) ==
    IF listing = <<>> THEN <<>>
    ELSE InsertAsc(discover_cifs(SubSeq(listing, 1, Len(listing) - 1)),
                   listing[Len(listing)])

----------------------------------------------------------------------------
(* run_validation *)

IdleCharge == [comp |-> <<>>, ox |-> None]

IdleGeo == Structure(FALSE, <<>>, 0, "", None, 0, 0, 0, TRUE)

\* the state after the set-up of run_validation: at most maxItems files,
\* a writer with one of the sizes flushes, a file with one of the contents
\* files
InitRun(maxItems, flushes, files) ==
    /\ pc = "running"
    /\ nItems \in 0..maxItems
    /\ idx = 0
    /\ items = <<>>
    /\ reference \in {load_train_reference(t) : t \in TrainReferences}
    /\ stats = RunStats(nItems)
    /\ buckets = <<>>
    /\ results = <<>>
    /\ records = <<>>
    /\ gateLog = <<>>
    /\ fitTrue = {}
    /\ compared = {}
    /\ counted = <<>>
    /\ report = None
    /\ order \in {discover_cifs(l) : l \in Listings(nItems)}
    /\ runNo = 1
    /\ prevRun = None
    /\ writer \in {BufferedCSVWriter(n) : n \in flushes}
    /\ ledger \in files
    /\ chIn = IdleCharge
    /\ chOut = None
    /\ geoIn = IdleGeo
    /\ geoOut = None

\* a run into a new output directory
Init == InitRun(MaxItems, {RunFlushEvery}, {<<>>})

\* the earlier items of the run that reached the duplicate check with the
\* bucket key of structure s
SameKeyEarlier(s) ==
    {order[i] : i \in {k \in 1..idx :
        /\ "duplicate" \in Range(gateLog[k])
        /\ items[k].s.formula = s.formula
        /\ SgOrSentinel(items[k].s.sg) = SgOrSentinel(s.sg)}}

\* what one iteration of the loop leaves behind for the item with id item,
\* input inp and outcome out of the loop body
Take(item, inp, out) ==
    /\ idx' = idx + 1
    /\ items' = Append(items, inp)
    /\ stats' = out.stats
    /\ buckets' = out.buckets
    /\ results' = Append(results, out.result)
    /\ records' = IF out.row = None THEN records
                  ELSE Append(records, out.row[1])
    /\ gateLog' = Append(gateLog, out.log)
    /\ fitTrue' = fitTrue \cup {<<item, e>> : e \in inp.fit}
    /\ compared' = compared \cup out.compared
    /\ counted' = Append(counted, out.counted)
    /\ pc' = IF out.raised THEN "aborted" ELSE "running"
    /\ LET io0 == WriterIO(writer, ledger)
           io1 == IF out.row = None THEN io0 ELSE writer_add(io0, out.row[1])
           io2 == IF out.raised THEN OnExit(io1) ELSE io1
       IN writer' = io2.w /\ ledger' = io2.f

\* one iteration of  for item in items: the file of the next item, the
\* comparator's judgement of it against the earlier items and the fault of
\* an external call are inputs
ProcessFrom(files) ==
    /\ pc = "running"
    /\ runNo = 1
    /\ idx < nItems
    /\ \E s \in files, fault \in Faults : \E fit \in SUBSET SameKeyEarlier(s) :
         LET item == order[idx + 1]
             inp  == [s |-> s, fault |-> fault, fit |-> fit]
             out  == LoopBody(item, inp, stats, buckets, reference)
         IN /\ (fault = "none" \/ (out.raised /\ Last(out.log) = fault)
                \/ (fault = "compare" /\ out.raised /\ Last(out.log) = "duplicate"))
            /\ (fit = {} \/ "duplicate" \in Range(out.log))
            /\ Take(item, inp, out)
    /\ UNCHANGED <<nItems, reference, report, order, runNo, prevRun,
                   chargeVars, geoVars>>

\* one iteration of the loop on any of the structure files
ProcessItem == ProcessFrom(Structures)

\* the loop is exhausted: the writer is closed and the report is built
Finish ==
    /\ pc = "running"
    /\ idx = nItems
    /\ LET io == OnExit(WriterIO(writer, ledger))
       IN writer' = io.w /\ ledger' = io.f
    /\ report' = Some(Report(stats))
    /\ pc' = "done"
    /\ UNCHANGED <<nItems, idx, items, reference, stats, buckets, results,
                   records, gateLog, fitTrue, compared, counted, order, runNo,
                   prevRun, chargeVars, geoVars>>

Next == ProcessItem \/ Finish

Spec == Init /\ [][Next]_vars

----------------------------------------------------------------------------
(* A second run_validation on the same input directory, reference and cfg *)

\* what a finished or aborted run leaves behind
RunOutcome ==
    [pc |-> pc, report |-> report, results |-> results, records |-> records,
     order |-> order, items |-> items, fitTrue |-> fitTrue]

\* the stored structures the comparator judges equivalent to the file item:
\* its judgement of a pair of files is that of the first run
Judged(item, fits) ==
    {e \in 1..nItems : <<item, e>> \in fits \/ <<e, item>> \in fits}

\* run_validation is called again: the files are discovered anew, and the
\* statistics, the equivalence index and the writer are new objects
Rerun ==
    /\ runNo = 1
    /\ pc \in {"done", "aborted"}
    /\ prevRun' = Some(RunOutcome)
    /\ runNo' = 2
    /\ order' \in {discover_cifs(l) : l \in Listings(nItems)}
    /\ stats' = RunStats(nItems)
    /\ buckets' = <<>>
    /\ pc' = "running"
    /\ idx' = 0
    /\ items' = <<>>
    /\ results' = <<>>
    /\ records' = <<>>
    /\ gateLog' = <<>>
    /\ fitTrue' = {}
    /\ compared' = {}
    /\ counted' = <<>>
    /\ report' = None
    /\ writer' = BufferedCSVWriter(writer.flush_every)
    /\ UNCHANGED <<nItems, reference, ledger, chargeVars, geoVars>>

\* one iteration of the loop of the second run: the file, the comparator's
\* judgement and the fault of an external call are those of the first run
ReprocessItem ==
    /\ pc = "running"
    /\ runNo = 2
    /\ idx < nItems
    /\ LET item == order[idx + 1]
       IN \E j \in DOMAIN prevRun[1].items :
            /\ prevRun[1].order[j] = item
            /\ LET was == prevRun[1].items[j]
                   inp == [s |-> was.s, fault |-> was.fault,
                           fit |-> Judged(item, prevRun[1].fitTrue)]
               IN Take(item, inp, LoopBody(item, inp, stats, buckets, reference))
    /\ UNCHANGED <<nItems, reference, report, order, runNo, prevRun,
                   chargeVars, geoVars>>

InitRerun == Init /\ nItems <= MaxRerunItems

NextRerun == ProcessItem \/ Finish \/ Rerun \/ ReprocessItem

SpecRerun == InitRerun /\ [][NextRerun]_vars

----------------------------------------------------------------------------
(* Runs seen from the ledger file: writers that flush after a few records  *)
(* (the run's 500 scaled down to the number of items of these runs), into  *)
(* a new output directory or one that holds the ledger of an earlier run   *)

\* the ledger an earlier run of one unparseable file left behind
OldRecord ==
    make_record(0, ValidationResult(REJECTED, None,
                       Some(Rejection(CIF_PARSE_ERROR, "error")), FALSE, None),
                None, None)

OldLedger == <<HeaderRow, DataRow(OldRecord)>>

\* a file that validates, a file that does not parse and a file whose
\* magnetic check raises
FewStructures ==
    { Structure(FALSE, <<>>, 0, "", None, 0, 0, 0, TRUE),
      Structure(TRUE, Fe2O3, 5, "Fe2O3", Some(167), 50, 52, 19, TRUE),
      Structure(TRUE, <<[el |-> "Fe", amt2 |-> 3], [el |-> "O", amt2 |-> 6]>>,
                5, "FeO2", Some(12), 50, 52, 19, FALSE) }

InitLedger == InitRun(MaxLedgerItems, 1..MaxFlushEvery, {<<>>, OldLedger})

ProcessFew == ProcessFrom(FewStructures)

NextLedger == ProcessFew \/ Finish

SpecLedger == InitLedger /\ [][NextLedger]_vars

----------------------------------------------------------------------------
(* A BufferedCSVWriter on its own: any sequence of open, add, flush, close *)

HeaderCount(f) == Cardinality({k \in DOMAIN f : f[k].header})

InitWriter ==
    /\ pc = "idle" /\ nItems = 0 /\ idx = 0 /\ items = <<>>
    /\ reference = None /\ stats = <<>> /\ buckets = <<>> /\ results = <<>>
    /\ records = <<>> /\ gateLog = <<>> /\ fitTrue = {} /\ compared = {}
    /\ counted = <<>> /\ report = None
    /\ order = <<>> /\ runNo = 1 /\ prevRun = None
    /\ writer \in {BufferedCSVWriter(n) : n \in 1..MaxFlushEvery}
    /\ ledger = <<>>
    /\ chIn = IdleCharge /\ chOut = None /\ geoIn = IdleGeo /\ geoOut = None

\* the writer's call leaves the writer and the file as io says
WriterStep(io) ==
    /\ writer' = io.w
    /\ ledger' = io.f
    /\ UNCHANGED <<pc, nItems, idx, items, reference, stats, buckets, results,
                   gateLog, fitTrue, compared, counted, report, order, runNo,
                   prevRun, chargeVars, geoVars>>

\* writer.open()
WOpen ==
    /\ pc = "idle"
    /\ HeaderCount(ledger) < MaxOpens
    /\ WriterStep(writer_open(WriterIO(writer, ledger)))
    /\ UNCHANGED records

\* writer.add(record), the records being numbered as they are added
WAdd ==
    /\ pc = "idle"
    /\ Len(records) < MaxAdds
    /\ WriterStep(writer_add(WriterIO(writer, ledger), Len(records) + 1))
    /\ records' = Append(records, Len(records) + 1)

\* writer.flush()
WFlush ==
    /\ pc = "idle"
    /\ WriterStep(writer_flush(WriterIO(writer, ledger)))
    /\ UNCHANGED records

\* writer.close()
WClose ==
    /\ pc = "idle"
    /\ WriterStep(writer_close(WriterIO(writer, ledger)))
    /\ UNCHANGED records

NextWriter == WOpen \/ WAdd \/ WFlush \/ WClose

SpecWriter == InitWriter /\ [][NextWriter]_vars

----------------------------------------------------------------------------
(* Inputs of the stand-alone charge check *)

Elems == {"Fe", "O", "H"}

Amounts == 1..MaxAmt

\* compositions: distinct elements of Elems, in any insertion order
RECURSIVE CompsOfLen(_)
CompsOfLen(n) ==
    IF n = 0 THEN {<<>>}
    ELSE {Append(c, [el |-> e, amt2 |-> a]) :
             c \in CompsOfLen(n - 1), e \in Elems, a \in Amounts}

DistinctEls(c) == \A i, j \in DOMAIN c : i # j => c[i].el # c[j].el

Comps == {c \in UNION {CompsOfLen(n) : n \in 0..Cardinality(Elems)} : DistinctEls(c)}

TableA == [Fe |-> <<2, 3>>, O |-> <<-2>>, H |-> <<1, -1>>]

TableB == [Fe |-> <<3>>, O |-> <<-2, -1>>, H |-> <<>>]

TableC == [Fe |-> <<3, 2>>, H |-> <<-1, 1>>]

TableD == [Fe |-> <<-3, 3>>, O |-> <<2, -2>>, H |-> <<1>>]

OxTables == {None, Some(TableA), Some(TableB), Some(TableC), Some(TableD)}

\* compositions around the element cap: one atom of each of the first n of
\* eleven elements, with a table that has two states for every one of them
BigElems == <<"Li", "Be", "B", "C", "N", "F", "Na", "Mg", "Al", "Si", "P">>

BigComp(n) == [i \in 1..n |-> [el |-> BigElems[i], amt2 |-> 2]]

BigComps == {BigComp(n) : n \in (ElementCap - 2)..(ElementCap + 1)}

TableBig == [e \in Range(BigElems) |-> <<1, -1>>]

\* the table without an entry for the eleventh element
TableBigLess == [e \in Range(BigElems) \ {BigElems[ElementCap + 1]} |-> <<1, -1>>]

BigTables == {Some(TableBig), Some(TableBigLess)}

\* the state outside the run: no run_validation in progress
IdleRun ==
    /\ pc = "idle" /\ nItems = 0 /\ idx = 0 /\ items = <<>>
    /\ reference = None /\ stats = <<>> /\ buckets = <<>> /\ results = <<>>
    /\ records = <<>> /\ gateLog = <<>> /\ fitTrue = {} /\ compared = {}
    /\ counted = <<>> /\ report = None
    /\ order = <<>> /\ runNo = 1 /\ prevRun = None
    /\ writer = BufferedCSVWriter(RunFlushEvery) /\ ledger = <<>>

InitCharge ==
    /\ IdleRun
    /\ chIn \in [comp : Comps, ox : OxTables] \cup [comp : BigComps, ox : BigTables]
    /\ chOut = None
    /\ geoIn = IdleGeo
    /\ geoOut = None

\* one call check_charge_neutrality(struct, cfg)
CheckCharge ==
    /\ pc = "idle"
    /\ chOut = None
    /\ chOut' = Some(check_charge_neutrality(chIn.comp, chIn.ox))
    /\ UNCHANGED <<pipeVars, chIn, geoVars>>

NextCharge == CheckCharge

SpecCharge == InitCharge /\ [][NextCharge]_vars

----------------------------------------------------------------------------
(* Inputs of the stand-alone geometry gate *)

\* structures on the two sides of every threshold of cfg
GeoInputs ==
    UNION {
      {Structure(TRUE, Fe2O3, n, "Fe2O3", None, v, d, m, TRUE) :
          v \in {n * cfg.vpa_min - 1, n * cfg.vpa_min,
                 n * cfg.vpa_max, n * cfg.vpa_max + 1},
          d \in {cfg.density_min - 1, cfg.density_min,
                 cfg.density_max, cfg.density_max + 1},
          m \in {cfg.d_min_reject - 1, cfg.d_min_reject,
                 cfg.d_max_suspicious - 1, cfg.d_max_suspicious}} :
      n \in {2, cfg.max_n_atoms, cfg.max_n_atoms + 1}}

\* geo = geometry_validate(struct, cfg) and the orchestrator's test of it
GeometryGate(s) ==
    [geo |-> geometry_validate(s, cfg),
     rejected |-> GeoRejected(geometry_validate(s, cfg))]

InitGeo ==
    /\ IdleRun
    /\ chIn = IdleCharge
    /\ chOut = None
    /\ geoIn \in GeoInputs
    /\ geoOut = None

\* one pass of a structure through the geometry gate
ApplyGeometry ==
    /\ pc = "idle"
    /\ geoOut = None
    /\ geoOut' = Some(GeometryGate(geoIn))
    /\ UNCHANGED <<pipeVars, chargeVars, geoIn>>

NextGeo == ApplyGeometry

SpecGeo == InitGeo /\ [][NextGeo]_vars

----------------------------------------------------------------------------
(* Exhaustive enumeration, the yardstick of the pruned search *)

ElsOf(comp) == {comp[i].el : i \in DOMAIN comp}

CountOf(comp, e) == RoundAmt(comp[CHOOSE i \in DOMAIN comp : comp[i].el = e].amt2)

RECURSIVE ChargeSum(_, _, _)
ChargeSum(comp, f, S) ==
    IF S = {} THEN 0
    ELSE LET e == CHOOSE x \in S : TRUE
         IN CountOf(comp, e) * f[e] + ChargeSum(comp, f, S \ {e})

\* all combinations of one admissible state per element
Assignments(comp, ox) ==
    {f \in [ElsOf(comp) -> UNION {Range(ox[e]) : e \in ElsOf(comp)}] :
        \A e \in ElsOf(comp) : f[e] \in Range(ox[e])}

Neutral(comp, f) == ChargeSum(comp, f, ElsOf(comp)) = 0

HasEntries(comp, oxcfg) == ElsOf(comp) \subseteq DOMAIN OxOrEmpty(oxcfg)

\* C5: within the element cap and with an entry for every element, the pruned
\* depth-first search answers ok exactly when some combination of one
\* admissible state per element has a zero sum of count*state.
C5_PrunedEqualsExhaustive ==
    (chOut # None /\ chIn.comp # <<>> /\ Len(chIn.comp) <= ElementCap
        /\ HasEntries(chIn.comp, chIn.ox))
    => ((~chOut[1].raised /\ chOut[1].ok)
          <=> (\E f \in Assignments(chIn.comp, OxOrEmpty(chIn.ox)) :
                  Neutral(chIn.comp, f)))

\* a search over two elements that had to tell a neutral combination from a
\* combination that is not neutral
C5_Witness ==
    /\ chOut # None /\ chOut[1].ok
    /\ Len(chIn.comp) = 2
    /\ chIn.ox = Some(TableD)
    /\ \E f \in Assignments(chIn.comp, TableD) : ~Neutral(chIn.comp, f)

\* C6: an ok result carries a solution that gives every element of the
\* composition one state of its admissible list with zero sum of
\* count*state; a result that is not ok has no solution and the reason
\* charge_imbalance.
C6_SolutionSound ==
    (chOut # None /\ ~chOut[1].raised)
    => IF chOut[1].ok
       THEN /\ chOut[1].solution # None
            /\ DOMAIN chOut[1].solution[1] = ElsOf(chIn.comp)
            /\ \A e \in ElsOf(chIn.comp) :
                  chOut[1].solution[1][e] \in Range(OxOrEmpty(chIn.ox)[e])
            /\ Neutral(chIn.comp, chOut[1].solution[1])
       ELSE /\ chOut[1].solution = None
            /\ chOut[1].reason = CHARGE_IMBALANCE

\* counts {Fe:2, O:3} with Fe in {2,3}, O in {-2} give {Fe:3, O:-2}
C6_Witness ==
    /\ chIn.comp = <<[el |-> "Fe", amt2 |-> 4], [el |-> "O", amt2 |-> 6]>>
    /\ chIn.ox = Some(TableA)
    /\ chOut # None /\ chOut[1].ok
    /\ chOut[1].solution = Some([Fe |-> 3, O |-> -2])

----------------------------------------------------------------------------
(* Properties of a run *)

HasResult(i) == results[i].status \in {VALIDATED, REJECTED}

RejectedFor(i, reason) ==
    /\ results[i].status = REJECTED
    /\ results[i].rejection # None
    /\ results[i].rejection[1].reason = reason

ReachedDuplicateCheck(i) == "duplicate" \in Range(gateLog[i])

SameBucketKey(i, j) ==
    /\ items[i].s.formula = items[j].s.formula
    /\ SgOrSentinel(items[i].s.sg) = SgOrSentinel(items[j].s.sg)

Stored == UNION {Range(buckets[k]) : k \in DOMAIN buckets}

RowsOf(i) == {k \in DOMAIN records : records[k].structure_id = i}

IsPrefix(a, b) == Len(a) <= Len(b) /\ a = SubSeq(b, 1, Len(a))

\* the gate that issues a rejection reason
GateOf(reason) ==
    CASE reason = CIF_PARSE_ERROR -> "parse"
      [] reason = CIF_SANITY_ERROR -> "sanity"
      [] reason \in {TOO_MANY_ATOMS, PHYS_IMPOSSIBLE_DISTANCE, UNREALISTIC_DENSITY}
           -> "geometry"
      [] reason = CHARGE_IMBALANCE -> "charge"
      [] reason = DUPLICATE -> "duplicate"
      [] OTHER -> "none"

\* C1: the summary of a run satisfies n_total = n_validated + n_rejected, the
\* two counters count the items counted as validated and as rejected, and no
\* item is counted both as validated and as rejected.
C1_TotalIsValidatedPlusRejected ==
    /\ \A i \in 1..idx : ~({"validated", "rejected"} \subseteq counted[i])
    /\ report # None =>
         /\ report[1].n_total = report[1].n_validated + report[1].n_rejected
         /\ report[1].n_validated =
              Cardinality({i \in 1..idx : "validated" \in counted[i]})
         /\ report[1].n_rejected =
              Cardinality({i \in 1..idx : "rejected" \in counted[i]})

\* a summary of a run with validated and rejected items
C1_Witness ==
    /\ report # None
    /\ report[1].n_validated >= 1
    /\ report[1].n_rejected >= 2

\* C2: a failure raised while an item is processed becomes a rejection of
\* that item and never aborts the run: every item taken by the loop has a
\* terminal result and the run is never left by an exception.
C2_FailureBecomesRejection ==
    /\ pc # "aborted"
    /\ \A i \in 1..idx : HasResult(i)

\* C3: the gates of an item are evaluated in the fixed order, and the first
\* gate that rejects is the last one evaluated: no charge search, comparison
\* or insertion into the index follows a rejection.
C3_GateOrderShortCircuit ==
    \A i \in 1..idx :
      LET log == gateLog[i]
          s   == items[i].s
      IN /\ IsPrefix(log, GateOrder)
         /\ ~s.parse_ok => log = <<"parse">>
         /\ (s.parse_ok /\ ~sanity_ok(s)) => Last(log) = "sanity"
         /\ ("geometry" \in Range(log) /\ items[i].fault # "geometry"
               /\ geometry_validate(s, cfg).status = REJECTED)
              => Last(log) = "geometry"
         /\ ("charge" \in Range(log)
               /\ ~check_charge_neutrality(s.comp, cfg.oxidation_states).ok)
              => Last(log) = "charge"
         /\ (\E e \in 1..idx : <<i, e>> \in compared \cap fitTrue)
              => Last(log) = "duplicate"
         /\ results[i].status = REJECTED =>
              /\ Last(log) = GateOf(results[i].rejection[1].reason)
              /\ i \notin Stored
         /\ "duplicate" \notin Range(log) => \A e \in 1..idx : <<i, e>> \notin compared
         /\ "add_to_accepted" \notin Range(log) => i \notin Stored
         /\ results[i].status = VALIDATED => log = GateOrder

\* an item rejected by the geometry gate that the charge gate would reject
\* too, next to an item rejected as a duplicate
C3_Witness ==
    \E i, j \in 1..idx :
        /\ RejectedFor(i, PHYS_IMPOSSIBLE_DISTANCE) \/ RejectedFor(i, TOO_MANY_ATOMS)
        /\ RejectedFor(j, DUPLICATE)

\* C4: at the end of a run every discovered item has one terminal result and
\* exactly one ledger row.
C4_OneRowPerItem ==
    pc \in {"done", "aborted"} =>
        \A i \in 1..nItems :
            /\ i <= idx
            /\ HasResult(i)
            /\ Cardinality(RowsOf(i)) = 1

\* C7 as stated: of two items with one bucket key that both passed geometry
\* and charge and that the comparator judges equivalent, the later one is
\* rejected as a duplicate and the earlier one is validated.
C7_LaterEquivalentRejected ==
    \A i, j \in 1..idx :
        (/\ i < j
         /\ HasResult(i) /\ HasResult(j)
         /\ SameBucketKey(i, j)
         /\ ReachedDuplicateCheck(i) /\ ReachedDuplicateCheck(j)
         /\ <<j, i>> \in fitTrue)
        => /\ RejectedFor(j, DUPLICATE)
           /\ results[i].status = VALIDATED

\* C7 amended: when moreover the earlier one was not itself rejected as a
\* duplicate, the later one is never validated nor stored, its result, once
\* it has one, is a rejection for reason duplicate, and the earlier one is
\* validated.
C7_LaterOfRetainedRejected ==
    \A i, j \in 1..idx :
        (/\ i < j
         /\ SameBucketKey(i, j)
         /\ ReachedDuplicateCheck(i) /\ ReachedDuplicateCheck(j)
         /\ ~RejectedFor(i, DUPLICATE)
         /\ <<j, i>> \in fitTrue)
        => /\ results[i].status = VALIDATED
           /\ results[j].status # VALIDATED
           /\ HasResult(j) => RejectedFor(j, DUPLICATE)
           /\ j \notin Stored

\* a later item rejected as a duplicate of a validated earlier one that is
\* not the first of its bucket
C7_Witness ==
    \E i, j \in 1..idx :
        /\ 1 < i /\ i < j
        /\ SameBucketKey(1, i) /\ SameBucketKey(i, j)
        /\ results[1].status = VALIDATED
        /\ results[i].status = VALIDATED
        /\ <<j, i>> \in fitTrue /\ <<j, 1>> \notin fitTrue
        /\ RejectedFor(j, DUPLICATE)

\* C8: the comparator is only invoked on two structures with the same
\* reduced formula and the same spacegroup-or-sentinel, the second of them
\* stored earlier; an item whose bucket is absent is compared with nothing
\* and is not a duplicate.
C8_ComparedShareBucketKey ==
    /\ \A p \in compared :
         /\ p[2] < p[1]
         /\ p[2] \in Stored
         /\ items[p[1]].s.formula = items[p[2]].s.formula
         /\ SgOrSentinel(items[p[1]].s.sg) = SgOrSentinel(items[p[2]].s.sg)
    /\ \A j \in 1..idx :
         (/\ ReachedDuplicateCheck(j)
          /\ \A i \in 1..(j - 1) : i \in Stored => ~SameBucketKey(i, j))
         => /\ \A e \in 1..idx : <<j, e>> \notin compared
            /\ ~RejectedFor(j, DUPLICATE)

\* two stored structures with one spacegroup and different reduced formulas,
\* never compared, in a run in which the comparator was invoked
C8_Witness ==
    /\ compared # {}
    /\ \E i, j \in Stored :
         /\ i < j
         /\ items[i].s.formula # items[j].s.formula
         /\ items[i].s.sg = items[j].s.sg
         /\ <<j, i>> \notin compared

\* C9: every structure stored in a bucket belongs to an item whose duplicate
\* check returned false and whose terminal status is validated.
C9_IndexHoldsOnlyValidated ==
    \A i \in Stored :
        /\ results[i].status = VALIDATED
        /\ \A e \in 1..idx : <<i, e>> \notin (compared \cap fitTrue)

\* the text of a spacegroup number of the inputs, written out
SgText(sg) ==
    CASE sg = None -> <<>>
      [] sg = Some(1) -> <<"1">>
      [] sg = Some(12) -> <<"1", "2">>
      [] sg = Some(167) -> <<"1", "6", "7">>
      [] sg = Some(225) -> <<"2", "2", "5">>

\* C10: without a reference every validated item has is_novel = null; with a
\* reference a validated item has is_novel = false exactly when (reduced
\* formula text, spacegroup text or empty text) is a key of the reference,
\* and is_novel = true otherwise; the ledger row carries the same value.
C10_NoveltyTriState ==
    \A i \in 1..idx :
        results[i].status = VALIDATED =>
            LET key == <<items[i].s.formula, SgText(items[i].s.sg)>>
                v   == results[i].is_novel
            IN /\ reference = None => v = None
               /\ reference # None =>
                    /\ v = Some(FALSE) <=> key \in reference[1]
                    /\ v = Some(TRUE) <=> key \notin reference[1]
               /\ \A k \in RowsOf(i) : records[k].is_novel = v

\* with a reference: a validated item without spacegroup whose key is in the
\* reference, next to a validated item whose key is not
C10_Witness ==
    /\ reference # None
    /\ \E i, j \in 1..idx :
         /\ results[i].status = VALIDATED /\ items[i].s.sg = None
         /\ results[i].is_novel = Some(FALSE)
         /\ results[j].status = VALIDATED
         /\ results[j].is_novel = Some(TRUE)

----------------------------------------------------------------------------
(* Properties of the geometry gate *)

TooManyAtoms(s) == s.n_atoms > cfg.max_n_atoms

TooClose(s) == s.dmin < cfg.d_min_reject

DensityOutside(s) == s.dens < cfg.density_min \/ s.dens > cfg.density_max

----------------------------------------------------------------------------
(* Properties of the results and of the statistics of a run *)

PassedSanity(i) == items[i].s.parse_ok /\ sanity_ok(items[i].s)

\* C12: a result carries descriptors exactly when its item passed the sanity
\* gate: results of parse and sanity rejections carry none, results of
\* geometry, charge and duplicate rejections and validated results carry the
\* descriptors computed for the structure; the ledger row carries the same.
C12_DescriptorsAfterSanity ==
    \A i \in 1..idx :
        HasResult(i) =>
            /\ results[i].descriptors # None <=> PassedSanity(i)
            /\ PassedSanity(i) =>
                 results[i].descriptors =
                     Some(compute_basic_descriptors(items[i].s,
                              get_spacegroup_number(items[i].s)))
            /\ (RejectedFor(i, CIF_PARSE_ERROR) \/ RejectedFor(i, CIF_SANITY_ERROR))
                 => results[i].descriptors = None
            /\ \A k \in RowsOf(i) : records[k].descriptors = results[i].descriptors

\* a sanity or parse rejection without descriptors next to a validated item
\* and its rejected duplicate, both with descriptors
C12_Witness ==
    \E i, j, k \in 1..idx :
        /\ RejectedFor(i, CIF_SANITY_ERROR) /\ results[i].descriptors = None
        /\ results[j].status = VALIDATED /\ results[j].descriptors # None
        /\ RejectedFor(k, DUPLICATE) /\ results[k].descriptors # None

\* C13: an item whose result or ledger row has is_duplicate = true is
\* rejected for reason duplicate.
C13_DuplicateFlagOnlyOnDuplicates ==
    \A i \in 1..idx :
        (results[i].is_duplicate \/ \E k \in RowsOf(i) : records[k].is_duplicate)
        => RejectedFor(i, DUPLICATE)

\* a validated item, an item rejected as its duplicate and an item rejected
\* by the charge gate, each with its ledger row
C13_Witness ==
    \E i, j, k \in 1..idx :
        /\ results[i].status = VALIDATED /\ ~results[i].is_duplicate
        /\ RejectedFor(j, DUPLICATE)
        /\ RejectedFor(k, CHARGE_IMBALANCE) /\ ~results[k].is_duplicate
        /\ RowsOf(i) # {} /\ RowsOf(j) # {} /\ RowsOf(k) # {}

\* C14: the is_suspicious flag of a validated item's result and ledger row
\* equals the flag the geometry validator computed for the structure.
C14_SuspiciousFlagCarried ==
    \A i \in 1..idx :
        results[i].status = VALIDATED =>
            /\ results[i].is_suspicious =
                   geometry_validate(items[i].s, cfg).is_suspicious
            /\ \A k \in RowsOf(i) :
                   records[k].is_suspicious =
                       geometry_validate(items[i].s, cfg).is_suspicious

\* the quotient is a number and that number is 0
IsZero(q) == q.num = 0 /\ q.den # 0

\* C15: finalization yields a report; every ratio and average in it has a
\* denominator other than 0; with no validated item magnetic_ratio,
\* novelty_ratio, avg_density and avg_volume_per_atom are 0, and with no item
\* at all validity_ratio and duplicate_ratio are 0.
C15_EmptyDenominatorIsZero ==
    /\ pc = "done" => report # None
    /\ report # None =>
         LET r == report[1]
         IN /\ \A q \in {r.validity_ratio, r.magnetic_ratio, r.novelty_ratio,
                         r.duplicate_ratio, r.avg_density,
                         r.avg_volume_per_atom} : q.den # 0
            /\ r.n_validated = 0 =>
                 /\ IsZero(r.magnetic_ratio) /\ IsZero(r.novelty_ratio)
                 /\ IsZero(r.avg_density) /\ IsZero(r.avg_volume_per_atom)
            /\ r.n_total = 0 =>
                 IsZero(r.validity_ratio) /\ IsZero(r.duplicate_ratio)

\* the report of a run with items none of which was validated
C15_Witness ==
    /\ report # None
    /\ report[1].n_total >= 2
    /\ report[1].n_validated = 0
    /\ IsZero(report[1].magnetic_ratio)

RejectionReasons ==
    {CIF_PARSE_ERROR, CIF_SANITY_ERROR, TOO_MANY_ATOMS, PHYS_IMPOSSIBLE_DISTANCE,
     UNREALISTIC_DENSITY, CHARGE_IMBALANCE, DUPLICATE}

HistogramAt(rr, reason) == IF reason \in DOMAIN rr THEN rr[reason] ELSE 0

RECURSIVE SumOver(_, _)
SumOver(f, S) ==
    IF S = {} THEN 0
    ELSE LET x == CHOOSE y \in S : TRUE IN f[x] + SumOver(f, S \ {x})

\* C16: after any number of processed items the histogram holds, under every
\* reason code, the number of items whose result is a rejection for that
\* reason, nothing under any other key, and its values sum to the rejected
\* count; validated items contribute nothing.
C16_HistogramCountsRejections ==
    LET rr == stats.rejection_reasons
    IN /\ DOMAIN rr \subseteq RejectionReasons
       /\ \A reason \in RejectionReasons :
            HistogramAt(rr, reason) =
                Cardinality({i \in 1..idx : RejectedFor(i, reason)})
       /\ SumOver(rr, DOMAIN rr) = stats.rejected
       /\ stats.rejected = Cardinality({i \in 1..idx : results[i].status = REJECTED})

\* two rejections for one reason and a validated item
C16_Witness ==
    /\ \E reason \in DOMAIN stats.rejection_reasons :
          stats.rejection_reasons[reason] = 2
    /\ \E i \in 1..idx : results[i].status = VALIDATED

----------------------------------------------------------------------------
(* Properties of a second run *)

RowsIn(recs, item) == {recs[k] : k \in {m \in DOMAIN recs : recs[m].structure_id = item}}

\* C17: a second run on the same files, reference and configuration visits
\* the items in the order of the first run, gives every item the result and
\* the ledger row (status, reason, flags, descriptors, charge solution) it
\* had in the first run, and ends as the first run ended, with the same
\* summary.
C17_RerunIdentical ==
    runNo = 2 =>
        LET was == prevRun[1]
        IN /\ order = was.order
           /\ \A k \in 1..idx :
                \E j \in DOMAIN was.results :
                    /\ was.order[j] = order[k]
                    /\ was.results[j] = results[k]
                    /\ RowsIn(was.records, order[k]) = RowsIn(records, order[k])
           /\ pc \in {"done", "aborted"} =>
                /\ pc = was.pc
                /\ idx = Len(was.results)
                /\ report = was.report

\* a finished second run with a validated item and a rejected duplicate
C17_Witness ==
    /\ runNo = 2
    /\ pc = "done"
    /\ report # None
    /\ \E i, j \in 1..idx :
          results[i].status = VALIDATED /\ RejectedFor(j, DUPLICATE)

----------------------------------------------------------------------------
(* Properties of the early exits of the charge check *)

\* C18: when an element of the composition has no entry in the table the
\* call returns not ok with reason charge_imbalance, no solution, and the
\* list of exactly the elements of the composition without an entry, each
\* once; the search is not started.
C18_MissingElementsReported ==
    (chOut # None /\ ~HasEntries(chIn.comp, chIn.ox)) =>
        LET r == chOut[1]
            lacking == ElsOf(chIn.comp) \ DOMAIN OxOrEmpty(chIn.ox)
        IN /\ ~r.raised /\ ~r.ok
           /\ r.reason = CHARGE_IMBALANCE
           /\ r.solution = None
           /\ r.details.what = "missing_elements"
           /\ Range(r.details.missing_elements) = lacking
           /\ Len(r.details.missing_elements) = Cardinality(lacking)
           /\ ~r.searched

\* three elements of which one lacks an entry: it alone is reported
C18_Witness ==
    /\ chOut # None
    /\ chIn.ox = Some(TableC)
    /\ Len(chIn.comp) = 3
    /\ chOut[1].details.missing_elements = <<"O">>
    /\ ~chOut[1].searched

----------------------------------------------------------------------------
(* Suspicious structures in a run *)

ReachedGeometry(i) == PassedSanity(i) /\ items[i].fault # "geometry"

----------------------------------------------------------------------------
(* Novelty in a run *)

NoveltyLookedUp(i) == "novelty" \in Range(gateLog[i])

\* C21: the novelty lookup is executed only for an item that passed sanity,
\* geometry and charge, never for an item rejected at parse, sanity, geometry
\* or charge; an item rejected after the lookup is rejected as a duplicate of
\* a stored structure the comparator judged equivalent, not for its novelty.
C21_NoveltyNeverRejects ==
    \A i \in 1..idx :
        /\ NoveltyLookedUp(i) =>
             /\ PassedSanity(i)
             /\ geometry_validate(items[i].s, cfg).status = VALIDATED
             /\ check_charge_neutrality(items[i].s.comp, cfg.oxidation_states).ok
        /\ (\E r \in RejectionReasons \ {DUPLICATE} : RejectedFor(i, r))
             => ~NoveltyLookedUp(i)
        /\ (results[i].status = REJECTED /\ NoveltyLookedUp(i)) =>
             /\ RejectedFor(i, DUPLICATE)
             /\ \E e \in 1..idx : <<i, e>> \in compared \cap fitTrue

\* with a reference: a validated item that is not novel, a validated item
\* that is, and an item rejected by the charge gate without a lookup
C21_Witness ==
    /\ reference # None
    /\ \E i, j, k \in 1..idx :
         /\ results[i].status = VALIDATED /\ results[i].is_novel = Some(FALSE)
         /\ results[j].status = VALIDATED /\ results[j].is_novel = Some(TRUE)
         /\ RejectedFor(k, CHARGE_IMBALANCE) /\ ~NoveltyLookedUp(k)

----------------------------------------------------------------------------
(* Properties of the ledger file *)

\* the records of the data rows of a file, in order
RECURSIVE DataOf(_)
DataOf(f) ==
    IF f = <<>> THEN <<>>
    ELSE IF Head(f).header THEN DataOf(Tail(f))
         ELSE <<Head(f).rec[1]>> \o DataOf(Tail(f))

IsSuffix(a, b) ==
    Len(a) <= Len(b) /\ a = SubSeq(b, Len(b) - Len(a) + 1, Len(b))

\* C22: at every point of a run the records handed to the writer are, in
\* order, the last records of the file followed by the buffer, and once
\* run_validation has exited, normally or by an exception, the buffer is
\* empty, the file is closed and the file ends with all those records.
C22_FaultLosesNoRecord ==
    /\ IsSuffix(records, DataOf(ledger) \o writer.buffer)
    /\ pc \in {"done", "aborted"} =>
         /\ writer.buffer = <<>>
         /\ ~writer.is_open
         /\ IsSuffix(records, DataOf(ledger))

\* a run left by an exception after three records, two of them flushed when
\* the buffer filled and one still buffered when the exception was raised
C22_Witness ==
    /\ pc = "aborted"
    /\ writer.flush_every = 2
    /\ Len(records) = 3
    /\ IsSuffix(records, DataOf(ledger))

\* C26: after a finished run the ledger file holds one header row, as its
\* first row, and the rows of the items of that run, one per item.
C26_OneHeaderOneRowPerItem ==
    pc = "done" =>
        /\ HeaderCount(ledger) = 1
        /\ ledger[1].header
        /\ DataOf(ledger) = records
        /\ Len(records) = nItems

----------------------------------------------------------------------------
(* Properties of the writer *)

\* C25: after every call the buffer holds fewer than flush_every records and
\* the data rows of the file followed by the buffer are the added records,
\* each once and in the order of the adds; after close the buffer is empty
\* and the data rows of the file are the added records.
C25_WriterKeepsEveryRecord ==
    /\ Len(writer.buffer) < writer.flush_every
    /\ DataOf(ledger) \o writer.buffer = records
    /\ ~writer.is_open =>
         /\ writer.buffer = <<>>
         /\ DataOf(ledger) = records

\* a closed writer with flush_every 2 after three adds
C25_Witness ==
    /\ writer.flush_every = 2
    /\ ~writer.is_open
    /\ Len(records) = 3
    /\ DataOf(ledger) = records

----------------------------------------------------------------------------
(* Exact comparisons of the geometry gate *)

----------------------------------------------------------------------------
(* Properties of the equivalence index *)

BucketAt(bk, key) == IF key \in DOMAIN bk THEN bk[key] ELSE <<>>

\* the item the step from this state to the next one processed was stored
TookAndStored == idx' = idx + 1 /\ "add_to_accepted" \in Range(gateLog'[idx'])

\* C24: every bucket lists its items in discovery order; a step of the run
\* leaves every bucket as it is or appends the processed item at the end of
\* one bucket, and it appends only when the item's duplicate check returned
\* false; a step that processes an item without storing it, a duplicate
\* included, changes nothing in the index and creates no bucket.
C24_BucketsGrowInDiscoveryOrder ==
    /\ [](\A key \in DOMAIN buckets :
            \A a, b \in DOMAIN buckets[key] :
                a < b => buckets[key][a] < buckets[key][b])
    /\ [][/\ \A key \in DOMAIN buckets :
                /\ key \in DOMAIN buckets'
                /\ IsPrefix(buckets[key], buckets'[key])
          /\ \A key \in DOMAIN buckets' :
                \/ buckets'[key] = BucketAt(buckets, key)
                \/ /\ TookAndStored
                   /\ buckets'[key] = Append(BucketAt(buckets, key), order[idx'])
                   /\ \A e \in 1..idx' : <<order[idx'], e>> \notin compared' \cap fitTrue'
                   /\ \A other \in DOMAIN buckets' \ {key} :
                         buckets'[other] = BucketAt(buckets, other)
          /\ ~TookAndStored =>
                /\ DOMAIN buckets' = DOMAIN buckets
                /\ \A key \in DOMAIN buckets : buckets'[key] = buckets[key]
         ]_vars

\* a bucket of two structures and a third item of the same key rejected as
\* a duplicate
C24_Witness ==
    \E key \in DOMAIN buckets :
        /\ Len(buckets[key]) = 2
        /\ \E j \in 1..idx :
              /\ RejectedFor(j, DUPLICATE)
              /\ BucketKey(items[j].s.formula, SgOrSentinel(items[j].s.sg)) = key
              /\ j > buckets[key][2]

\* C28: of two structures stored in one bucket the later one was compared
\* with the earlier one and the comparator judged them not equivalent.
C28_NoEquivalentPairStored ==
    \A key \in DOMAIN buckets :
        \A a, b \in DOMAIN buckets[key] :
            a < b =>
                /\ <<buckets[key][b], buckets[key][a]>> \in compared
                /\ <<buckets[key][b], buckets[key][a]>> \notin fitTrue

\* a bucket of three structures
C28_Witness ==
    \E key \in DOMAIN buckets :
        /\ Len(buckets[key]) = 3
        /\ <<buckets[key][3], buckets[key][1]>> \in compared

----------------------------------------------------------------------------
(* Flags and counters *)

C30_NovelCountOnlyTrue ==
    /\ stats.novel_count =
         Cardinality({i \in 1..idx :
             results[i].status = VALIDATED /\ results[i].is_novel = Some(TRUE)})
    /\ 0 <= stats.novel_count /\ stats.novel_count <= stats.validated
    /\ reference = None =>
         /\ stats.novel_count = 0
         /\ report # None => IsZero(report[1].novelty_ratio)

\* the report of a run without a reference that validated two items
C30_Witness ==
    /\ reference = None
    /\ report # None
    /\ report[1].n_validated = 2
    /\ IsZero(report[1].novelty_ratio)

----------------------------------------------------------------------------
(* Totality of the charge check *)

\* C27: every call of check_charge_neutrality returns a result; none raises.
C27_ChargeCheckTotal ==
    chOut # None => ~chOut[1].raised

====
